---- MODULE Spec2Model ----
(***************************************************************************)
(* Model of the ClaimFlow front end: the useClaimProcessor hook (the       *)
(* line-framed stream decoder processStream, the orchestrators             *)
(* processClaim / processFile, reset), the part of useClaimsHistory that   *)
(* the submit handlers call, and the Index page handlers that drive them.  *)
(*                                                                         *)
(* A request is an async task: its position (pc) moves at each await       *)
(* (fetch, response.text(), reader.read()).  Everything between two awaits *)
(* runs without interleaving (single-threaded event loop), so it is one    *)
(* action.  React state setters are functional updates applied in call     *)
(* order, so the hook state is modelled as plain variables.                *)
(*                                                                         *)
(* Bytes and characters are symbolic.  The wire alphabet has the bytes     *)
(* "{", "}", "a", " ", "nl" (0x0A) and the two bytes "C3", "A9" of the     *)
(* UTF-8 encoding of U+00E9.  A JSON record is abstracted to the line      *)
(* "{" name "}" ("{" stands for the text up to the opening quote of the    *)
(* node name, "}" for the text after it); every other non-blank line       *)
(* makes JSON.parse throw.  "{}" is the record whose node name is empty.   *)
(*                                                                         *)
(* The chat (ClaimChatBox.handleSend) is a second kind of async task.  Its *)
(* state belongs to the component instance, which Index renders only while *)
(* hasStarted and results is non-empty; message ids come from Date.now(),  *)
(* modelled by the clock `now`.  ChatSpec runs the chat next to the claim  *)
(* side.                                                                   *)
(***************************************************************************)
EXTENDS Integers, Sequences, FiniteSets, TLC

\* ------------------------------------------------------------------ bounds
MaxTasks == 2        \* requests that are dispatched in one behaviour
MaxTokens == 4       \* tokens of a payload in the decoder specification
SegmentSize == 4     \* bytes of a network segment in the full specification
MaxChats == 2        \* chat requests that are sent in one behaviour
MaxNow == 3          \* the last reading of the clock (Date.now())
MaxStages == 4       \* records of a body in the stepper specification

Tasks == 1 .. MaxTasks
Chats == 1 .. MaxChats

\* ------------------------------------------------------- bytes, characters
NL == "nl"
LeadBytes == {"C3"}
ContBytes == {"A9"}
WhiteSpace == {" "}
EAcute == "U+00E9"
Replacement == "U+FFFD"

\* the character of a complete two-byte sequence
CodePoint(lead, cont) == IF lead = "C3" /\ cont = "A9" THEN EAcute ELSE Replacement

\* decoder.decode(value, {stream: true}): the bytes of an incomplete
\* sequence are carried in `pend` to the next call; a malformed sequence
\* becomes U+FFFD and the offending byte is decoded again.
RECURSIVE Utf8Decode(_, _, _)
Utf8Decode(bytes, pend, out) ==
    IF bytes = <<>> THEN [text |-> out, pending |-> pend]
    ELSE LET b == Head(bytes) IN
         IF pend # <<>>
         THEN IF b \in ContBytes
              THEN Utf8Decode(Tail(bytes), <<>>, Append(out, CodePoint(pend[1], b)))
              ELSE Utf8Decode(bytes, <<>>, Append(out, Replacement))
         ELSE IF b \in LeadBytes THEN Utf8Decode(Tail(bytes), <<b>>, out)
         ELSE IF b \in ContBytes THEN Utf8Decode(Tail(bytes), <<>>, Append(out, Replacement))
         ELSE Utf8Decode(Tail(bytes), <<>>, Append(out, b))

\* mutant of decode: decoder.decode(value) without {stream: true}
decodeNoStream(value, pend) ==
    LET d == Utf8Decode(value, <<>>, <<>>)
    IN [text |-> d.text \o (IF d.pending # <<>> THEN <<Replacement>> ELSE <<>>),
        pending |-> <<>>]

decode(value, pend) == Utf8Decode(value, pend, <<>>)

\* buffer.split("\n"): always at least one piece
RECURSIVE SplitAcc(_, _, _)
SplitAcc(s, cur, acc) ==
    IF s = <<>> THEN Append(acc, cur)
    ELSE IF Head(s) = NL THEN SplitAcc(Tail(s), <<>>, Append(acc, cur))
    ELSE SplitAcc(Tail(s), Append(cur, Head(s)), acc)

split(s) == SplitAcc(s, <<>>, <<>>)

\* lines.pop() || ""  and what is left of lines after the pop
pop(lines) == lines[Len(lines)]
\* mutant of popped: the loop also runs over the last, unfinished piece
notPopped(lines) == lines

popped(lines) == SubSeq(lines, 1, Len(lines) - 1)

\* String.prototype.trim
RECURSIVE TrimLeft(_)
TrimLeft(s) == IF s # <<>> /\ Head(s) \in WhiteSpace THEN TrimLeft(Tail(s)) ELSE s
RECURSIVE TrimRight(_)
TrimRight(s) ==
    IF s # <<>> /\ s[Len(s)] \in WhiteSpace THEN TrimRight(SubSeq(s, 1, Len(s) - 1)) ELSE s
trim(s) == TrimRight(TrimLeft(s))

\* JSON.parse(trimmedLine): succeeds on "{" name "}" and throws otherwise
ParseOk(s) ==
    /\ Len(s) >= 2
    /\ s[1] = "{"
    /\ s[Len(s)] = "}"
    /\ \A i \in 2 .. Len(s) - 1 : s[i] \notin {"{", "}"}
JSONparse(s) == [node |-> SubSeq(s, 2, Len(s) - 1)]

includes(list, x) == \E i \in 1 .. Len(list) : list[i] = x

\* mutant of AppendResult: a record of a node already present is not kept
AppendResultDedup(prev, parsed) ==
    IF \E i \in 1 .. Len(prev) : prev[i].node = parsed.node THEN prev ELSE Append(prev, parsed)

\* mutant of AppendResult: [parsed, ...prev]
PrependResult(prev, parsed) == <<parsed>> \o prev

\* setResults((prev) => [...prev, parsed])
AppendResult(prev, parsed) == Append(prev, parsed)

\* setCompletedNodes((prev) => prev.includes(parsed.node) ? prev : [...prev, parsed.node])
AddCompleted(prev, node) == IF includes(prev, node) THEN prev ELSE Append(prev, node)

\* mutant of ParseLines: a parse failure ends the loop over the lines
RECURSIVE ParseLinesAbort(_)
ParseLinesAbort(lines) ==
    IF lines = <<>> THEN <<>>
    ELSE LET trimmedLine == trim(Head(lines)) IN
         IF trimmedLine = <<>> THEN ParseLinesAbort(Tail(lines))
         ELSE IF ParseOk(trimmedLine)
              THEN <<JSONparse(trimmedLine)>> \o ParseLinesAbort(Tail(lines))
         ELSE <<>>

\* the body of `for (const line of lines)`: the records the lines yield, in order
RECURSIVE ParseLines(_)
ParseLines(lines) ==
    IF lines = <<>> THEN <<>>
    ELSE LET trimmedLine == trim(Head(lines)) IN
         IF trimmedLine = <<>> THEN ParseLines(Tail(lines))
         ELSE IF ParseOk(trimmedLine) THEN <<JSONparse(trimmedLine)>> \o ParseLines(Tail(lines))
         ELSE ParseLines(Tail(lines))

\* mutant of ParseWarnings: the loop has no `if (!trimmedLine) continue`, so
\* JSON.parse throws on a blank line as well
RECURSIVE ParseWarningsNoSkip(_)
ParseWarningsNoSkip(lines) ==
    IF lines = <<>> THEN 0
    ELSE (IF ~ParseOk(trim(Head(lines))) THEN 1 ELSE 0) + ParseWarningsNoSkip(Tail(lines))

\* the console.warn calls of the loop over the lines: one per line that is
\* not blank and makes JSON.parse throw
RECURSIVE ParseWarnings(_)
ParseWarnings(lines) ==
    IF lines = <<>> THEN 0
    ELSE LET trimmedLine == trim(Head(lines)) IN
         (IF trimmedLine # <<>> /\ ~ParseOk(trimmedLine) THEN 1 ELSE 0)
             + ParseWarnings(Tail(lines))

\* the console.warn call of the code after the loop
FlushWarnings(buf) ==
    LET t == trim(buf) IN IF t # <<>> /\ ~ParseOk(t) THEN 1 ELSE 0

\* mutant of Flush: the remaining buffer is dropped
FlushNothing(buf) == <<>>

\* the code after the loop: the remaining buffer, parsed once
Flush(buf) ==
    LET t == trim(buf) IN
    IF t # <<>> /\ ParseOk(t) THEN <<JSONparse(t)>> ELSE <<>>

RECURSIVE AppendAll(_, _)
AppendAll(prev, recs) ==
    IF recs = <<>> THEN prev ELSE AppendAll(AppendResult(prev, Head(recs)), Tail(recs))

RECURSIVE AddAllCompleted(_, _)
AddAllCompleted(prev, recs) ==
    IF recs = <<>> THEN prev ELSE AddAllCompleted(AddCompleted(prev, Head(recs).node), Tail(recs))

\* ------------------------------------------------------------------- state
VARIABLES
    isProcessing,      \* useClaimProcessor: useState(false)
    results,           \* useClaimProcessor: useState([])
    completedNodes,    \* useClaimProcessor: useState([])
    hasStarted,        \* Index: useState(false)
    claims,            \* useClaimsHistory: the history list
    selectedClaimId,   \* useClaimsHistory: 0 stands for null
    storage,           \* localStorage item "claimflow-history"
    pc,                \* per request: idle, fetching, text, reading, done
    kind,              \* per request: claim (processClaim) or file (processFile)
    response,          \* per request: status and body text of the response
    body,              \* per request: the bytes of the response body
    rest,              \* per request: bytes of the body not yet delivered
    buffer,            \* per request: processStream's `buffer`
    pending,           \* per request: bytes the TextDecoder carries over
    toasts,            \* per request: the notifications shown, in order
    outcome,           \* history: per request none, completed (try ran through), failed (catch ran)
    cause,             \* history: per request, the await or statement that ended it
    markInactive,      \* history: per request, how often its finally block has run
    appended,          \* history: per request, how many records it has appended
    splitInChar,       \* history: per request, a chunk ended inside a multi-byte character
    decoded,           \* history: records decoded successfully since the last reset
    isChatOpen,        \* Index: useState(false)
    messages,          \* ClaimChatBox: useState([greeting]), of the mounted instance
    isLoading,         \* ClaimChatBox: useState(false), of the mounted instance
    now,               \* the value Date.now() returns
    chatPc,            \* per chat request: idle, fetching, reading, done
    assistantMessageId,\* per chat request: handleSend's `assistantMessageId`
    accumulatedContent,\* per chat request: handleSend's `accumulatedContent`
    chatRest,          \* per chat request: bytes of the body not yet delivered
    chatPending,       \* per chat request: bytes the TextDecoder carries over
    attached,          \* per chat request: the ClaimChatBox instance that sent it is mounted
    chatBody,          \* history: per chat request, the bytes of the response body
    chatCause,         \* history: per chat request, the await or statement that ended it
    closedWith,        \* history: the chat request during which the panel was closed
                       \* before its first chunk (0: none); set back by the next send
    error,             \* ClaimInput: useState(""), of the mounted instance
    selectedFile,      \* ClaimInput: useState(null), of the mounted instance
    claimText,         \* ClaimInput: useState(""), of the mounted instance
    inputMode,         \* ClaimInput: useState("text"), of the mounted instance
    parseFailures      \* history: per request, the console.warn calls of processStream

chatVars == <<isChatOpen, messages, isLoading, now, chatPc, assistantMessageId,
              accumulatedContent, chatRest, chatPending, attached, chatBody, chatCause,
                   closedWith>>
inputVars == <<error, selectedFile, claimText, inputMode>>
historyVars == <<claims, selectedClaimId, storage>>
streamVars == <<body, rest, buffer, pending, splitInChar>>
vars == <<isProcessing, results, completedNodes, hasStarted, claims, selectedClaimId,
          storage, pc, kind, response, body, rest, buffer, pending, toasts, outcome,
          cause, markInactive, appended, splitInChar, decoded, isChatOpen, messages,
          isLoading, now, chatPc, assistantMessageId, accumulatedContent, chatRest,
          chatPending, attached, chatBody, chatCause, closedWith, error, selectedFile,
          claimText, inputMode, parseFailures>>

\* the state of the useClaimProcessor hook as one value
Hook == [isProcessing |-> isProcessing, results |-> results, completedNodes |-> completedNodes]

\* the hook state after a sequence of setter calls
SetHook(h) ==
    /\ isProcessing' = h.isProcessing
    /\ results' = h.results
    /\ completedNodes' = h.completedNodes

\* ------------------------------------------------------------ environment
RecEmpty == <<"{", "}">>
RecA == <<"{", "a", "}">>
RecE == <<"{", "C3", "A9", "}">>

\* the response body the backend sends in the full specification: three
\* records, two of them of the same node, the last one without a newline
Payloads == { RecEmpty \o <<NL>> \o RecA \o <<NL>> \o RecEmpty }

\* mutant of Ok: the status of the response is not looked at
OkAlways(status) == TRUE

\* response.ok
Ok(status) == status >= 200 /\ status <= 299

\* the responses fetch resolves with: a 2xx response with a readable body, a
\* 2xx response whose body is null, and a non-2xx response with its body text
Responses ==
    {[status |-> 200, hasReader |-> TRUE, bytes |-> p, text |-> ""] : p \in Payloads}
    \cup {[status |-> 200, hasReader |-> FALSE, bytes |-> <<>>, text |-> ""]}
    \cup {[status |-> 500, hasReader |-> TRUE, bytes |-> <<>>, text |-> "Internal Server Error"]}

\* String(response.status) in the template literal
StatusString(status) ==
    CASE status = 200 -> "200"
      [] status = 500 -> "500"
      [] OTHER -> "0"

NoResponse == [status |-> 0, text |-> ""]

\* the sizes of the next chunk in the full specification: the network cuts
\* the body into segments, or delivers all that is left at once
ChunkSizes(bytes) ==
    IF bytes = <<>> THEN {}
    ELSE {IF Len(bytes) < SegmentSize THEN Len(bytes) ELSE SegmentSize, Len(bytes)}

\* ------------------------------------------------------------- the errors
HttpError(status, errorText) == <<"HTTP error! status: ", StatusString(status), " - ", errorText>>
NoReaderError == <<"No response body reader available">>
\* the messages of the errors the platform throws
FetchError == <<"Failed to fetch">>
TextError == <<"body stream error">>
ReadError == <<"network error">>

SuccessToast(k) ==
    [type |-> "success",
     message |-> IF k = "claim" THEN <<"Claim processed successfully!">>
                 ELSE <<"File processed successfully!">>]

\* mutant of ErrorToast: toast.success is called in the catch block
ErrorAsSuccess(errorMessage) ==
    [type |-> "success", message |-> <<"Connection Error: ">> \o errorMessage]

ErrorToast(errorMessage) ==
    [type |-> "error", message |-> <<"Connection Error: ">> \o errorMessage]

\* ----------------------------------------------------------------- history
ClaimText(k) == IF k = "claim" THEN "claim text" ELSE "[File Upload] file name"

\* mutant of MapStatus: the entries with another id go back to processing
MapStatusRevertsOthers(prev, id, status) ==
    [i \in 1 .. Len(prev) |->
        [prev[i] EXCEPT !.status = IF prev[i].id = id THEN status ELSE "processing"]]

\* mutant of MapStatus: an id that is not in the list is added to it
MapStatusUpsert(prev, id, status) ==
    IF \E i \in 1 .. Len(prev) : prev[i].id = id
    THEN [i \in 1 .. Len(prev) |->
             IF prev[i].id = id THEN [prev[i] EXCEPT !.status = status] ELSE prev[i]]
    ELSE <<[id |-> id, claimText |-> ClaimText("claim"), status |-> status]>> \o prev

\* updateClaimStatus: prev.map(c => c.id === id ? {...c, status} : c)
MapStatus(prev, id, status) ==
    [i \in 1 .. Len(prev) |->
        IF prev[i].id = id THEN [prev[i] EXCEPT !.status = status] ELSE prev[i]]

\* selectedFile === null
NoFile == "null"

Stored(list) == [present |-> TRUE, value |-> list]
NoItem == [present |-> FALSE, value |-> <<>>]

\* ------------------------------------------------------------------- chat
\* the initial state of `messages`: the greeting, id "1"
Greeting ==
    <<[id |-> 1, role |-> "assistant", content |-> <<"Hello!">>]>>

\* the fixed content the catch block of handleSend writes
ErrorContent == <<"Sorry, I encountered an error processing your question. Please try again.">>

\* the state of a ClaimChatBox instance at mount, and of Index's isChatOpen;
\* no chat request has been sent
ChatInit ==
    /\ isChatOpen = FALSE
    /\ messages = Greeting
    /\ isLoading = FALSE
    /\ now = 2
    /\ chatPc = [c \in Chats |-> "idle"]
    /\ assistantMessageId = [c \in Chats |-> 0]
    /\ accumulatedContent = [c \in Chats |-> <<>>]
    /\ chatRest = [c \in Chats |-> <<>>]
    /\ chatPending = [c \in Chats |-> <<>>]
    /\ attached = [c \in Chats |-> FALSE]
    /\ chatBody = [c \in Chats |-> <<>>]
    /\ chatCause = [c \in Chats |-> "none"]
    /\ closedWith = 0

\* -------------------------------------------------------------------- Init
Init ==
    /\ isProcessing = FALSE
    /\ results = <<>>
    /\ completedNodes = <<>>
    /\ hasStarted = FALSE
    /\ claims = <<>>
    /\ selectedClaimId = 0
    /\ storage = NoItem
    /\ pc = [t \in Tasks |-> "idle"]
    /\ kind = [t \in Tasks |-> "claim"]
    /\ response = [t \in Tasks |-> NoResponse]
    /\ body = [t \in Tasks |-> <<>>]
    /\ rest = [t \in Tasks |-> <<>>]
    /\ buffer = [t \in Tasks |-> <<>>]
    /\ pending = [t \in Tasks |-> <<>>]
    /\ toasts = [t \in Tasks |-> <<>>]
    /\ outcome = [t \in Tasks |-> "none"]
    /\ cause = [t \in Tasks |-> "none"]
    /\ markInactive = [t \in Tasks |-> 0]
    /\ appended = [t \in Tasks |-> 0]
    /\ splitInChar = [t \in Tasks |-> FALSE]
    /\ decoded = <<>>
    /\ error = ""
    /\ selectedFile = NoFile
    /\ claimText = <<>>
    /\ inputMode = "text"
    /\ parseFailures = [t \in Tasks |-> 0]
    /\ ChatInit

\* ------------------------------------------------------------ hook setters
\* mutant of reset: setCompletedNodes([]) is missing
resetKeepsNodes(h) ==
    [isProcessing |-> FALSE, results |-> <<>>, completedNodes |-> h.completedNodes]

\* reset(): setResults([]); setCompletedNodes([]); setIsProcessing(false)
reset(h) == [isProcessing |-> FALSE, results |-> <<>>, completedNodes |-> <<>>]

\* setIsProcessing(value)
setIsProcessing(h, value) == [h EXCEPT !.isProcessing = value]

\* the two setter calls of a successful parse, for each record in order
emit(h, recs) ==
    [h EXCEPT !.results = AppendAll(h.results, recs),
              !.completedNodes = AddAllCompleted(h.completedNodes, recs)]

\* Index renders ClaimChatBox inside `hasStarted && (... hasResults && ...)`
Mounted == hasStarted /\ results # <<>>

\* the re-render of Index after a handler of the claim side: when the
\* results block leaves the tree the ClaimChatBox instance is unmounted and
\* its state is gone (the next instance starts from useState's initial
\* values); setters called later by its pending handleSend are no-ops
ChatBoxRender ==
    /\ IF Mounted /\ ~(hasStarted' /\ results' # <<>>)
       THEN /\ messages' = Greeting
            /\ isLoading' = FALSE
            /\ attached' = [c \in Chats |-> FALSE]
       ELSE UNCHANGED <<messages, isLoading, attached>>
    /\ UNCHANGED <<isChatOpen, now, chatPc, assistantMessageId, accumulatedContent,
                   chatRest, chatPending, chatBody, chatCause,
                   closedWith>>

\* the ClaimInput of the re-render after a handler of Index: Index renders
\* it in one place while !hasStarted and in another while hasStarted, so
\* when hasStarted changes the instance is replaced and the form starts from
\* useState's initial values (its error included, set by the caller)
ClaimInputRender ==
    IF hasStarted' # hasStarted
    THEN /\ selectedFile' = NoFile
         /\ claimText' = <<>>
         /\ inputMode' = "text"
    ELSE UNCHANGED <<selectedFile, claimText, inputMode>>

\* ----------------------------------------------------------------- actions
\* Index.handleSubmit / handleFileSubmit up to the await of fetch:
\* setHasStarted(true); saveClaim(...); processClaim/processFile runs
\* reset(); setIsProcessing(true) and issues the request.  The submit button
\* is disabled while isProcessing.  Request ids are handed out in order.
Dispatch(t, k) ==
    /\ ~isProcessing
    /\ pc[t] = "idle"
    /\ \A u \in Tasks : u < t => pc[u] # "idle"
    /\ hasStarted' = TRUE
    /\ LET newClaim == [id |-> t, claimText |-> ClaimText(k), status |-> "processing"]
           updated == <<newClaim>> \o claims
       IN /\ claims' = updated
          /\ storage' = Stored(updated)
    /\ selectedClaimId' = t
    /\ SetHook(setIsProcessing(reset(Hook), TRUE))
    /\ decoded' = <<>>
    /\ pc' = [pc EXCEPT ![t] = "fetching"]
    /\ kind' = [kind EXCEPT ![t] = k]
    /\ UNCHANGED <<response, streamVars, toasts, outcome, cause, markInactive, appended,
                   parseFailures>>
    /\ error' = ""
    /\ ClaimInputRender
    /\ ChatBoxRender

handleSubmit(t) == Dispatch(t, "claim")

\* mutant of handleFileSubmit: processFile does not call reset() first
handleFileSubmitNoReset(t) ==
    /\ ~isProcessing
    /\ pc[t] = "idle"
    /\ \A u \in Tasks : u < t => pc[u] # "idle"
    /\ hasStarted' = TRUE
    /\ LET newClaim == [id |-> t, claimText |-> ClaimText("file"), status |-> "processing"]
           updated == <<newClaim>> \o claims
       IN /\ claims' = updated
          /\ storage' = Stored(updated)
    /\ selectedClaimId' = t
    /\ SetHook(setIsProcessing(Hook, TRUE))
    /\ decoded' = decoded
    /\ pc' = [pc EXCEPT ![t] = "fetching"]
    /\ kind' = [kind EXCEPT ![t] = "file"]
    /\ UNCHANGED <<response, streamVars, toasts, outcome, cause, markInactive, appended,
                   parseFailures>>
    /\ error' = ""
    /\ ClaimInputRender
    /\ ChatBoxRender

handleFileSubmit(t) == Dispatch(t, "file")

\* Index.handleReset (sidebar "New Claim", always enabled)
handleReset ==
    /\ hasStarted' = FALSE
    /\ selectedClaimId' = 0
    /\ SetHook(reset(Hook))
    /\ decoded' = <<>>
    /\ UNCHANGED <<claims, storage, pc, kind, response, streamVars, toasts, outcome,
                   cause, markInactive, appended, parseFailures>>
    /\ error' = IF hasStarted THEN "" ELSE error
    /\ ClaimInputRender
    /\ ChatBoxRender

\* mutant of Exit: setIsProcessing(false) is the last statement of the try
\* block instead of a finally block, so a thrown error skips it
ExitWithoutFinally(t, recs, why, toast) ==
    /\ SetHook(IF toast.type = "success"
               THEN setIsProcessing(emit(Hook, recs), FALSE)
               ELSE emit(Hook, recs))
    /\ markInactive' = [markInactive EXCEPT ![t] = IF toast.type = "success" THEN @ + 1 ELSE @]
    /\ appended' = [appended EXCEPT ![t] = @ + Len(recs)]
    /\ decoded' = decoded \o recs
    /\ toasts' = [toasts EXCEPT ![t] = Append(@, toast)]
    /\ outcome' = [outcome EXCEPT ![t] = IF toast.type = "success" THEN "completed" ELSE "failed"]
    /\ cause' = [cause EXCEPT ![t] = why]
    /\ pc' = [pc EXCEPT ![t] = "done"]
    /\ LET updated == MapStatus(claims, t, "completed")
       IN /\ claims' = updated
          /\ storage' = Stored(updated)
    /\ rest' = [rest EXCEPT ![t] = <<>>]
    /\ buffer' = [buffer EXCEPT ![t] = <<>>]
    /\ pending' = [pending EXCEPT ![t] = <<>>]
    /\ parseFailures' = [parseFailures EXCEPT
                            ![t] = @ + (IF why = "drained" THEN FlushWarnings(buffer[t]) ELSE 0)]
    /\ UNCHANGED <<hasStarted, selectedClaimId, kind, body, splitInChar, chatVars, inputVars>>

\* the exit of processClaim/processFile after the records `recs` of the last
\* step: the toast of the try or the catch block, the finally block, and the
\* continuation of handleSubmit after `await processClaim(...)`, which
\* resolves on every path.  The locals of processStream (reader, buffer,
\* decoder) end with the call.
Exit(t, recs, why, toast) ==
    /\ SetHook(setIsProcessing(emit(Hook, recs), FALSE))
    /\ markInactive' = [markInactive EXCEPT ![t] = @ + 1]
    /\ appended' = [appended EXCEPT ![t] = @ + Len(recs)]
    /\ decoded' = decoded \o recs
    /\ toasts' = [toasts EXCEPT ![t] = Append(@, toast)]
    /\ outcome' = [outcome EXCEPT ![t] = IF toast.type = "success" THEN "completed" ELSE "failed"]
    /\ cause' = [cause EXCEPT ![t] = why]
    /\ pc' = [pc EXCEPT ![t] = "done"]
    /\ LET updated == MapStatus(claims, t, "completed")
       IN /\ claims' = updated
          /\ storage' = Stored(updated)
    /\ rest' = [rest EXCEPT ![t] = <<>>]
    /\ buffer' = [buffer EXCEPT ![t] = <<>>]
    /\ pending' = [pending EXCEPT ![t] = <<>>]
    /\ parseFailures' = [parseFailures EXCEPT
                            ![t] = @ + (IF why = "drained" THEN FlushWarnings(buffer[t]) ELSE 0)]
    /\ UNCHANGED <<hasStarted, selectedClaimId, kind, body, splitInChar, chatVars, inputVars>>

\* fetch rejects (network failure)
fetchRejects(t) ==
    /\ pc[t] = "fetching"
    /\ Exit(t, <<>>, "fetch", ErrorToast(FetchError))
    /\ UNCHANGED response

\* fetch resolves with a response
fetchResolves(t, resp) ==
    /\ pc[t] = "fetching"
    /\ response' = [response EXCEPT ![t] = [status |-> resp.status, text |-> resp.text]]
    /\ IF ~Ok(resp.status)
       THEN \* await response.text()
            /\ pc' = [pc EXCEPT ![t] = "text"]
            /\ UNCHANGED <<isProcessing, results, completedNodes, hasStarted, historyVars,
                           kind, streamVars, toasts, outcome, cause, markInactive,
                           appended, decoded, chatVars, inputVars, parseFailures>>
       ELSE IF ~resp.hasReader
       THEN \* processStream throws before the first read
            Exit(t, <<>>, "noreader", ErrorToast(NoReaderError))
       ELSE \* processStream awaits the first reader.read()
            /\ pc' = [pc EXCEPT ![t] = "reading"]
            /\ body' = [body EXCEPT ![t] = resp.bytes]
            /\ rest' = [rest EXCEPT ![t] = resp.bytes]
            /\ buffer' = [buffer EXCEPT ![t] = <<>>]
            /\ pending' = [pending EXCEPT ![t] = <<>>]
            /\ UNCHANGED <<isProcessing, results, completedNodes, hasStarted, historyVars,
                           kind, splitInChar, toasts, outcome, cause, markInactive,
                           appended, decoded, chatVars, inputVars, parseFailures>>

\* response.text() of a non-2xx response resolves: the Error is thrown and caught
textResolves(t) ==
    /\ pc[t] = "text"
    /\ Exit(t, <<>>, "http", ErrorToast(HttpError(response[t].status, response[t].text)))
    /\ UNCHANGED response

\* response.text() rejects (the body cannot be read)
textRejects(t) ==
    /\ pc[t] = "text"
    /\ Exit(t, <<>>, "text", ErrorToast(TextError))
    /\ UNCHANGED response

\* reader.read() resolves with the next n bytes of the body
readChunk(t, n) ==
    /\ pc[t] = "reading"
    /\ n \in 1 .. Len(rest[t])
    /\ \E d \in {decode(SubSeq(rest[t], 1, n), pending[t])} :
       \E lines \in {split(buffer[t] \o d.text)} :
       \E recs \in {ParseLines(popped(lines))} :
          /\ buffer' = [buffer EXCEPT ![t] = pop(lines)]
          /\ pending' = [pending EXCEPT ![t] = d.pending]
          /\ SetHook(emit(Hook, recs))
          /\ appended' = [appended EXCEPT ![t] = @ + Len(recs)]
          /\ decoded' = decoded \o recs
          /\ rest' = [rest EXCEPT ![t] = SubSeq(rest[t], n + 1, Len(rest[t]))]
          /\ splitInChar' = [splitInChar EXCEPT ![t] = @ \/ d.pending # <<>>]
          /\ parseFailures' = [parseFailures EXCEPT ![t] = @ + ParseWarnings(popped(lines))]
    /\ UNCHANGED <<hasStarted, historyVars, pc, kind, response, toasts, outcome, cause,
                   markInactive, body, chatVars, inputVars>>

\* reader.read() resolves with done: the flush, the success toast, finally
readDone(t) ==
    /\ pc[t] = "reading"
    /\ rest[t] = <<>>
    /\ Exit(t, Flush(buffer[t]), "drained", SuccessToast(kind[t]))
    /\ UNCHANGED response

\* reader.read() rejects mid-stream
readThrows(t) ==
    /\ pc[t] = "reading"
    /\ Exit(t, <<>>, "read", ErrorToast(ReadError))
    /\ UNCHANGED response

Next ==
    \/ \E t \in Tasks : handleSubmit(t)
    \/ \E t \in Tasks : handleFileSubmit(t)
    \/ handleReset
    \/ \E t \in Tasks : fetchRejects(t)
    \/ \E t \in Tasks, resp \in Responses : fetchResolves(t, resp)
    \/ \E t \in Tasks : textResolves(t)
    \/ \E t \in Tasks : textRejects(t)
    \/ \E t \in Tasks : \E n \in ChunkSizes(rest[t]) : readChunk(t, n)
    \/ \E t \in Tasks : readDone(t)
    \/ \E t \in Tasks : readThrows(t)

Spec == Init /\ [][Next]_vars

\* the network settles every pending promise of a request and the event
\* loop then runs the continuation
Progress(t) ==
    \/ fetchRejects(t)
    \/ \E resp \in Responses : fetchResolves(t, resp)
    \/ textResolves(t)
    \/ textRejects(t)
    \/ \E n \in ChunkSizes(rest[t]) : readChunk(t, n)
    \/ readDone(t)
    \/ readThrows(t)

FairSpec == Spec /\ \A t \in Tasks : WF_vars(Progress(t))

\* requests one after the other: the page without the "New Claim" button,
\* where the disabled submit button keeps a second request from starting
SerialNext ==
    \/ \E t \in Tasks : handleSubmit(t)
    \/ \E t \in Tasks : handleFileSubmit(t)
    \/ \E t \in Tasks : fetchRejects(t)
    \/ \E t \in Tasks, resp \in Responses : fetchResolves(t, resp)
    \/ \E t \in Tasks : textResolves(t)
    \/ \E t \in Tasks : textRejects(t)
    \/ \E t \in Tasks, n \in 1 .. SegmentSize : readChunk(t, n)
    \/ \E t \in Tasks : readDone(t)
    \/ \E t \in Tasks : readThrows(t)

SerialSpec == Init /\ [][SerialNext]_vars

\* ---------------------------------------------------------------- history
\* prev.filter(c => c.id !== id)
Filter(prev, id) == SelectSeq(prev, LAMBDA c : c.id # id)

\* mutant of deleteClaim: the selection is left as it is
deleteClaimKeepsSelection(id) ==
    /\ \E i \in 1 .. Len(claims) : claims[i].id = id
    /\ claims' = Filter(claims, id)
    /\ storage' = Stored(Filter(claims, id))
    /\ UNCHANGED <<selectedClaimId, isProcessing, results, completedNodes, hasStarted, pc,
                   kind, response, streamVars, toasts, outcome, cause, markInactive,
                   appended, decoded, chatVars, inputVars, parseFailures>>

\* useClaimsHistory.deleteClaim, from the delete button of a sidebar entry
deleteClaim(id) ==
    /\ \E i \in 1 .. Len(claims) : claims[i].id = id
    /\ claims' = Filter(claims, id)
    /\ storage' = Stored(Filter(claims, id))
    /\ selectedClaimId' = IF selectedClaimId = id THEN 0 ELSE selectedClaimId
    /\ UNCHANGED <<isProcessing, results, completedNodes, hasStarted, pc, kind, response,
                   streamVars, toasts, outcome, cause, markInactive, appended, decoded,
                   chatVars, inputVars, parseFailures>>

\* mutant of clearHistory: localStorage.removeItem is not called
clearHistoryKeepsItem ==
    /\ claims # <<>>
    /\ claims' = <<>>
    /\ selectedClaimId' = 0
    /\ UNCHANGED <<storage, isProcessing, results, completedNodes, hasStarted, pc, kind,
                   response, streamVars, toasts, outcome, cause, markInactive, appended,
                   decoded, chatVars, inputVars, parseFailures>>

\* useClaimsHistory.clearHistory, from the sidebar button shown while the
\* list is not empty
clearHistory ==
    /\ claims # <<>>
    /\ claims' = <<>>
    /\ selectedClaimId' = 0
    /\ storage' = NoItem
    /\ UNCHANGED <<isProcessing, results, completedNodes, hasStarted, pc, kind, response,
                   streamVars, toasts, outcome, cause, markInactive, appended, decoded,
                   chatVars, inputVars, parseFailures>>

\* Index.handleSelectClaim, from a click on a sidebar entry
handleSelectClaim(id) ==
    /\ \E i \in 1 .. Len(claims) : claims[i].id = id
    /\ selectedClaimId' = id
    /\ hasStarted' = TRUE
    /\ error' = IF hasStarted THEN error ELSE ""
    /\ ClaimInputRender
    /\ UNCHANGED <<isProcessing, results, completedNodes, claims, storage, pc, kind,
                   response, streamVars, toasts, outcome, cause, markInactive, appended,
                   decoded, parseFailures>>
    /\ ChatBoxRender

HistoryNext ==
    \/ Next
    \/ \E id \in Tasks : deleteClaim(id)
    \/ clearHistory
    \/ \E id \in Tasks : handleSelectClaim(id)

HistorySpec == Init /\ [][HistoryNext]_vars

\* ------------------------------------------------------------- ClaimInput
\* what the textarea can hold: nothing, white space, a claim
ClaimTexts == {<<>>, <<" ">>, <<NL, " ">>, <<"a">>, <<" ", "a">>}

\* a file, given by its type
Files == {"image/png", "application/pdf", "text/plain"}

allowedTypes ==
    {"image/jpeg", "image/png", "image/gif", "image/webp", "image/bmp", "application/pdf"}

EmptyTextError == "Please enter claim details before processing."
NoFileError == "Please select a file before processing."
FileTypeError == "Please select an image (JPG, PNG, GIF, WebP) or PDF file."

\* a handler of ClaimInput that only sets the error
SetError(msg) ==
    /\ error' = msg
    /\ UNCHANGED <<isProcessing, results, completedNodes, hasStarted, historyVars, pc, kind,
                   response, streamVars, toasts, outcome, cause, markInactive, appended,
                   decoded, chatVars, selectedFile, claimText, inputMode, parseFailures>>

\* mutant of ClaimInputHandleSubmit: the input is passed on unchecked
ClaimInputHandleSubmitUnchecked ==
    /\ ~isProcessing
    /\ IF inputMode = "text"
       THEN \E t \in Tasks : handleSubmit(t)
       ELSE \E t \in Tasks : handleFileSubmit(t)

\* ClaimInput.handleSubmit, from the submit button (disabled while isProcessing)
ClaimInputHandleSubmit ==
    /\ ~isProcessing
    /\ IF inputMode = "text"
       THEN IF trim(claimText) = <<>>
            THEN SetError(EmptyTextError)
            ELSE \E t \in Tasks : handleSubmit(t)
       ELSE IF selectedFile = NoFile
            THEN SetError(NoFileError)
            ELSE \E t \in Tasks : handleFileSubmit(t)

\* the textarea's onChange (text mode, disabled while isProcessing)
onChange(value) ==
    /\ ~isProcessing
    /\ inputMode = "text"
    /\ value # claimText
    /\ claimText' = value
    /\ error' = ""
    /\ UNCHANGED <<isProcessing, results, completedNodes, hasStarted, historyVars, pc, kind,
                   response, streamVars, toasts, outcome, cause, markInactive, appended,
                   decoded, chatVars, selectedFile, inputMode, parseFailures>>

\* the input mode tabs (disabled while isProcessing)
setInputMode(mode) ==
    /\ ~isProcessing
    /\ inputMode' = mode
    /\ UNCHANGED <<isProcessing, results, completedNodes, hasStarted, historyVars, pc, kind,
                   response, streamVars, toasts, outcome, cause, markInactive, appended,
                   decoded, chatVars, error, selectedFile, claimText, parseFailures>>

\* ClaimInput.handleFileSelect, from a drop on the empty drop zone or from
\* the file picker (disabled while isProcessing)
handleFileSelect(file) ==
    /\ inputMode = "file"
    /\ selectedFile = NoFile \/ ~isProcessing
    /\ IF file \notin allowedTypes
       THEN SetError(FileTypeError)
       ELSE /\ error' = ""
            /\ selectedFile' = file
            /\ UNCHANGED <<isProcessing, results, completedNodes, hasStarted, historyVars,
                           pc, kind, response, streamVars, toasts, outcome, cause,
                           markInactive, appended, decoded, chatVars, claimText, inputMode,
                           parseFailures>>

\* ClaimInput.clearFile, from the Remove button (disabled while isProcessing)
clearFile ==
    /\ ~isProcessing
    /\ inputMode = "file"
    /\ selectedFile # NoFile
    /\ selectedFile' = NoFile
    /\ UNCHANGED <<isProcessing, results, completedNodes, hasStarted, historyVars, pc, kind,
                   response, streamVars, toasts, outcome, cause, markInactive, appended,
                   decoded, chatVars, error, claimText, inputMode, parseFailures>>

\* the page with its form: submissions go through ClaimInput.handleSubmit;
\* a body arrives as one chunk
InputNext ==
    \/ ClaimInputHandleSubmit
    \/ \E value \in ClaimTexts : onChange(value)
    \/ \E mode \in {"text", "file"} : setInputMode(mode)
    \/ \E file \in Files : handleFileSelect(file)
    \/ clearFile
    \/ handleReset
    \/ \E t \in Tasks : fetchRejects(t)
    \/ \E t \in Tasks, resp \in Responses : fetchResolves(t, resp)
    \/ \E t \in Tasks : textResolves(t)
    \/ \E t \in Tasks : textRejects(t)
    \/ \E t \in Tasks : readChunk(t, Len(rest[t]))
    \/ \E t \in Tasks : readDone(t)
    \/ \E t \in Tasks : readThrows(t)

InputSpec == Init /\ [][InputNext]_vars

\* ---------------------------------------------------------------- stepper
\* ProcessingStepper: the ids of `steps`, in pipeline order; a name is one
\* symbol of the byte alphabet
steps == << <<"Intake Node">>, <<"Policy Node">>, <<"Risk Analyze Node">>, <<"Routing Node">> >>

\* ProcessingStepper.getStepStatus; `index` counts from 0 as in steps.map
getStepStatus(stepId, index) ==
    IF includes(completedNodes, stepId) THEN "completed"
    ELSE LET completedCount ==
                 Cardinality({i \in 1 .. Len(steps) : includes(completedNodes, steps[i])})
         IN IF isProcessing /\ index = completedCount THEN "active" ELSE "pending"

\* the nodes a backend may name: the four stages and one the stepper does not know
NodeNames == {steps[i] : i \in 1 .. Len(steps)} \cup {<<"a">>}

\* the line of the record of a node
RecordLine(node) == <<"{">> \o node \o <<"}", NL>>

RECURSIVE LinesOf(_)
LinesOf(nodes) == IF nodes = <<>> THEN <<>> ELSE RecordLine(Head(nodes)) \o LinesOf(Tail(nodes))

\* bodies of up to MaxStages records, in any order, repeats included
StagePayloads == {LinesOf(ns) : ns \in UNION {[1 .. n -> NodeNames] : n \in 0 .. MaxStages}}

\* a request reading such a body
StepperInit ==
    /\ isProcessing = TRUE
    /\ results = <<>>
    /\ completedNodes = <<>>
    /\ hasStarted = TRUE
    /\ claims = <<[id |-> 1, claimText |-> ClaimText("claim"), status |-> "processing"]>>
    /\ selectedClaimId = 1
    /\ storage = Stored(claims)
    /\ pc = [t \in Tasks |-> IF t = 1 THEN "reading" ELSE "idle"]
    /\ kind = [t \in Tasks |-> "claim"]
    /\ response = [t \in Tasks |-> IF t = 1 THEN [status |-> 200, text |-> ""] ELSE NoResponse]
    /\ \E p \in StagePayloads :
          /\ body = [t \in Tasks |-> IF t = 1 THEN p ELSE <<>>]
          /\ rest = body
    /\ buffer = [t \in Tasks |-> <<>>]
    /\ pending = [t \in Tasks |-> <<>>]
    /\ toasts = [t \in Tasks |-> <<>>]
    /\ outcome = [t \in Tasks |-> "none"]
    /\ cause = [t \in Tasks |-> "none"]
    /\ markInactive = [t \in Tasks |-> 0]
    /\ appended = [t \in Tasks |-> 0]
    /\ splitInChar = [t \in Tasks |-> FALSE]
    /\ decoded = <<>>
    /\ error = ""
    /\ selectedFile = NoFile
    /\ claimText = <<>>
    /\ inputMode = "text"
    /\ parseFailures = [t \in Tasks |-> 0]
    /\ ChatInit

\* the body arrives record by record
StepperNext ==
    \/ readChunk(1, Len(RecordLine(<<"a">>)))
    \/ readDone(1)
    \/ readThrows(1)

StepperSpec == StepperInit /\ [][StepperNext]_vars

\* ------------------------------------------------------- chat (handleSend)
claimVars == <<isProcessing, results, completedNodes, hasStarted, claims, selectedClaimId,
               storage, pc, kind, response, body, rest, buffer, pending, toasts, outcome,
               cause, markInactive, appended, splitInChar, decoded, error, selectedFile,
               claimText, inputMode, parseFailures>>

\* the body of a chat answer: "a" and the two bytes of U+00E9
ChatPayloads == { <<"a", "C3", "A9">> }

ChatResponses ==
    {[status |-> 200, hasReader |-> TRUE, bytes |-> p] : p \in ChatPayloads}
    \cup {[status |-> 200, hasReader |-> FALSE, bytes |-> <<>>]}
    \cup {[status |-> 500, hasReader |-> TRUE, bytes |-> <<>>]}

\* prev.map(msg => msg.id === assistantMessageId ? {...msg, content} : msg)
SetContent(prev, id, content) ==
    [i \in 1 .. Len(prev) |->
        IF prev[i].id = id THEN [prev[i] EXCEPT !.content = content] ELSE prev[i]]

\* mutant of OnChatError: the catch block leaves the messages as they are
OnChatErrorKeeps(prev, id) == prev

\* the setMessages call of the catch block
OnChatError(prev, id) == SetContent(prev, id, ErrorContent)

\* mutant of Accumulated: the chunk replaces what was accumulated
AccumulatedLastChunk(acc, chunk) == chunk

\* accumulatedContent += chunk
Accumulated(acc, chunk) == acc \o chunk

\* the "Chat with Claim" button: setIsChatOpen(true)
openChat ==
    /\ hasStarted
    /\ results # <<>>
    /\ ~isProcessing
    /\ isChatOpen' = TRUE
    /\ UNCHANGED <<claimVars, messages, isLoading, now, chatPc, assistantMessageId,
                   accumulatedContent, chatRest, chatPending, attached, chatBody, chatCause,
                   closedWith>>

\* mutant of onClose: closing the panel aborts the chat requests in flight
onCloseAborts ==
    /\ Mounted
    /\ isChatOpen
    /\ isChatOpen' = FALSE
    /\ chatPc' = [c \in Chats |-> IF chatPc[c] \in {"fetching", "reading"} THEN "done"
                                  ELSE chatPc[c]]
    /\ UNCHANGED <<claimVars, messages, isLoading, now, assistantMessageId,
                   accumulatedContent, chatRest, chatPending, attached, chatBody, chatCause,
                   closedWith>>

\* the close button or the backdrop of the panel: setIsChatOpen(false)
onClose ==
    /\ Mounted
    /\ isChatOpen
    /\ isChatOpen' = FALSE
    /\ closedWith' = IF \E c \in Chats : attached[c] /\ chatPc[c] = "fetching"
                     THEN CHOOSE c \in Chats : attached[c] /\ chatPc[c] = "fetching"
                     ELSE closedWith
    /\ UNCHANGED <<claimVars, messages, isLoading, now, chatPc, assistantMessageId,
                   accumulatedContent, chatRest, chatPending, attached, chatBody, chatCause>>

\* the clock advances
Tick ==
    /\ now < MaxNow
    /\ now' = now + 1
    /\ UNCHANGED <<claimVars, isChatOpen, messages, isLoading, chatPc, assistantMessageId,
                   accumulatedContent, chatRest, chatPending, attached, chatBody, chatCause,
                   closedWith>>

\* handleSend up to the await of fetch, with a non-blank input: the user
\* message with id Date.now(), the empty assistant message with id
\* Date.now() + 1 (the two readings of the clock are a few statements apart
\* and return the same value), setIsLoading(true), and the request.  The textarea and the send button are
\* rendered while the panel is open; the first statement returns while
\* isLoading.  Chat request ids are handed out in order.
handleSend(c) ==
    /\ Mounted
    /\ isChatOpen
    /\ ~isLoading
    /\ chatPc[c] = "idle"
    /\ \A u \in Chats : u < c => chatPc[u] # "idle"
    /\ LET userMessage == [id |-> now, role |-> "user", content |-> <<"question">>]
           assistantMessage == [id |-> now + 1, role |-> "assistant", content |-> <<>>]
       IN messages' = Append(Append(messages, userMessage), assistantMessage)
    /\ isLoading' = TRUE
    /\ chatPc' = [chatPc EXCEPT ![c] = "fetching"]
    /\ assistantMessageId' = [assistantMessageId EXCEPT ![c] = now + 1]
    /\ attached' = [attached EXCEPT ![c] = TRUE]
    /\ closedWith' = 0
    /\ UNCHANGED <<claimVars, isChatOpen, now, accumulatedContent, chatRest, chatPending,
                   chatBody, chatCause>>

\* the end of handleSend: the catch block when an error was thrown, then the
\* finally block.  The setters of an unmounted instance change nothing.
ChatExit(c, why, thrown) ==
    /\ chatPc' = [chatPc EXCEPT ![c] = "done"]
    /\ chatCause' = [chatCause EXCEPT ![c] = why]
    /\ chatRest' = [chatRest EXCEPT ![c] = <<>>]
    /\ chatPending' = [chatPending EXCEPT ![c] = <<>>]
    /\ IF attached[c]
       THEN /\ messages' = IF thrown THEN OnChatError(messages, assistantMessageId[c])
                           ELSE messages
            /\ isLoading' = FALSE
       ELSE UNCHANGED <<messages, isLoading>>
    /\ UNCHANGED <<claimVars, isChatOpen, now, assistantMessageId, accumulatedContent,
                   attached, closedWith>>

\* fetch rejects
chatFetchRejects(c) ==
    /\ chatPc[c] = "fetching"
    /\ ChatExit(c, "fetch", TRUE)
    /\ UNCHANGED chatBody

\* fetch resolves: a non-2xx response throws; a response without a reader
\* skips the loop; otherwise the loop awaits the first reader.read()
chatFetchResolves(c, resp) ==
    /\ chatPc[c] = "fetching"
    /\ IF ~Ok(resp.status)
       THEN ChatExit(c, "http", TRUE) /\ UNCHANGED chatBody
       ELSE IF ~resp.hasReader
       THEN ChatExit(c, "noreader", FALSE) /\ UNCHANGED chatBody
       ELSE /\ chatPc' = [chatPc EXCEPT ![c] = "reading"]
            /\ chatBody' = [chatBody EXCEPT ![c] = resp.bytes]
            /\ chatRest' = [chatRest EXCEPT ![c] = resp.bytes]
            /\ UNCHANGED <<claimVars, isChatOpen, messages, isLoading, now,
                           assistantMessageId, accumulatedContent, chatPending, attached,
                           chatCause,
                   closedWith>>

\* reader.read() resolves with the next n bytes: decode, accumulate, publish
chatReadChunk(c, n) ==
    /\ chatPc[c] = "reading"
    /\ n \in 1 .. Len(chatRest[c])
    /\ \E chunk \in {decode(SubSeq(chatRest[c], 1, n), chatPending[c])} :
       \E acc \in {Accumulated(accumulatedContent[c], chunk.text)} :
          /\ accumulatedContent' = [accumulatedContent EXCEPT ![c] = acc]
          /\ chatPending' = [chatPending EXCEPT ![c] = chunk.pending]
          /\ messages' = IF attached[c] THEN SetContent(messages, assistantMessageId[c], acc)
                         ELSE messages
    /\ chatRest' = [chatRest EXCEPT ![c] = SubSeq(chatRest[c], n + 1, Len(chatRest[c]))]
    /\ UNCHANGED <<claimVars, isChatOpen, isLoading, now, chatPc, assistantMessageId,
                   attached, chatBody, chatCause,
                   closedWith>>

\* reader.read() resolves with done: break, finally
chatReadDone(c) ==
    /\ chatPc[c] = "reading"
    /\ chatRest[c] = <<>>
    /\ ChatExit(c, "drained", FALSE)
    /\ UNCHANGED chatBody

\* reader.read() rejects mid-stream
chatReadThrows(c) ==
    /\ chatPc[c] = "reading"
    /\ ChatExit(c, "read", TRUE)
    /\ UNCHANGED chatBody

\* the network settles the pending promise of a chat request
ChatProgress(c) ==
    \/ chatFetchRejects(c)
    \/ \E resp \in ChatResponses : chatFetchResolves(c, resp)
    \/ \E n \in 1 .. Len(chatRest[c]) : chatReadChunk(c, n)
    \/ chatReadDone(c)
    \/ chatReadThrows(c)

ChatStep ==
    \/ openChat
    \/ onClose
    \/ Tick
    \/ \E c \in Chats : handleSend(c)
    \/ \E c \in Chats : chatFetchRejects(c)
    \/ \E c \in Chats, resp \in ChatResponses : chatFetchResolves(c, resp)
    \/ \E c \in Chats : \E n \in 1 .. Len(chatRest[c]) : chatReadChunk(c, n)
    \/ \E c \in Chats : chatReadDone(c)
    \/ \E c \in Chats : chatReadThrows(c)

\* the claim side next to the chat: text submissions, every path of
\* processClaim, each body delivered as one chunk
PageStep ==
    \/ \E t \in Tasks : handleSubmit(t)
    \/ handleReset
    \/ \E t \in Tasks : fetchRejects(t)
    \/ \E t \in Tasks, resp \in Responses : fetchResolves(t, resp)
    \/ \E t \in Tasks : textResolves(t)
    \/ \E t \in Tasks : textRejects(t)
    \/ \E t \in Tasks : readChunk(t, Len(rest[t]))
    \/ \E t \in Tasks : readDone(t)
    \/ \E t \in Tasks : readThrows(t)

\* the page with both pipelines
ChatNext == PageStep \/ ChatStep

ChatSpec == Init /\ [][ChatNext]_vars

ChatFairSpec == ChatSpec /\ \A c \in Chats : WF_vars(ChatProgress(c))

\* ------------------------------------------------- decoder specification
\* processStream alone, on every body of at most MaxTokens tokens, cut into
\* chunks at every byte offset.  It starts where handleSubmit has dispatched
\* request 1 and fetch has resolved with a 2xx response with a reader.
Tokens == {RecA, RecE, <<NL>>, <<" ">>, <<"a">>, <<"C3">>}

RECURSIVE Flatten(_)
Flatten(tokens) == IF tokens = <<>> THEN <<>> ELSE Head(tokens) \o Flatten(Tail(tokens))

TokenPayloads == {Flatten(ts) : ts \in UNION {[1 .. n -> Tokens] : n \in 0 .. MaxTokens}}

DecoderInit ==
    /\ isProcessing = TRUE
    /\ results = <<>>
    /\ completedNodes = <<>>
    /\ hasStarted = TRUE
    /\ claims = <<[id |-> 1, claimText |-> ClaimText("claim"), status |-> "processing"]>>
    /\ selectedClaimId = 1
    /\ storage = Stored(claims)
    /\ pc = [t \in Tasks |-> IF t = 1 THEN "reading" ELSE "idle"]
    /\ kind = [t \in Tasks |-> "claim"]
    /\ response = [t \in Tasks |-> IF t = 1 THEN [status |-> 200, text |-> ""] ELSE NoResponse]
    /\ \E p \in TokenPayloads :
          /\ body = [t \in Tasks |-> IF t = 1 THEN p ELSE <<>>]
          /\ rest = body
    /\ buffer = [t \in Tasks |-> <<>>]
    /\ pending = [t \in Tasks |-> <<>>]
    /\ toasts = [t \in Tasks |-> <<>>]
    /\ outcome = [t \in Tasks |-> "none"]
    /\ cause = [t \in Tasks |-> "none"]
    /\ markInactive = [t \in Tasks |-> 0]
    /\ appended = [t \in Tasks |-> 0]
    /\ splitInChar = [t \in Tasks |-> FALSE]
    /\ decoded = <<>>
    /\ error = ""
    /\ selectedFile = NoFile
    /\ claimText = <<>>
    /\ inputMode = "text"
    /\ parseFailures = [t \in Tasks |-> 0]
    /\ ChatInit

DecoderNext ==
    \/ \E n \in 1 .. Len(rest[1]) : readChunk(1, n)
    \/ readDone(1)

DecoderSpec == DecoderInit /\ [][DecoderNext]_vars

\* =================================================================== claims
\* ------------------------------------------------ reference definitions
\* the characters of the complete byte sequences of a body; an incomplete
\* sequence at the end has produced nothing yet
RECURSIVE TextOf(_)
TextOf(bytes) ==
    IF bytes = <<>> THEN <<>>
    ELSE IF Head(bytes) \in LeadBytes
         THEN IF Len(bytes) = 1 THEN <<>>
              ELSE IF bytes[2] \in ContBytes
                   THEN <<CodePoint(bytes[1], bytes[2])>> \o TextOf(SubSeq(bytes, 3, Len(bytes)))
                   ELSE <<Replacement>> \o TextOf(Tail(bytes))
    ELSE IF Head(bytes) \in ContBytes THEN <<Replacement>> \o TextOf(Tail(bytes))
    ELSE <<Head(bytes)>> \o TextOf(Tail(bytes))

\* the lines of a text that a newline ends, and the piece after the last newline
RECURSIVE TerminatedFrom(_, _)
TerminatedFrom(text, cur) ==
    IF text = <<>> THEN <<>>
    ELSE IF Head(text) = NL THEN <<cur>> \o TerminatedFrom(Tail(text), <<>>)
    ELSE TerminatedFrom(Tail(text), Append(cur, Head(text)))
TerminatedLines(text) == TerminatedFrom(text, <<>>)

RECURSIVE LastFrom(_, _)
LastFrom(text, cur) ==
    IF text = <<>> THEN cur
    ELSE IF Head(text) = NL THEN LastFrom(Tail(text), <<>>)
    ELSE LastFrom(Tail(text), Append(cur, Head(text)))
LastLine(text) == LastFrom(text, <<>>)

AllLines(text) == Append(TerminatedLines(text), LastLine(text))

Blank(line) == trim(line) = <<>>
WellFormed(line) == ParseOk(trim(line))
Malformed(line) == ~Blank(line) /\ ~WellFormed(line)

\* the records of the well-formed lines among `lines`, in their order
RecordsOf(lines) ==
    LET sel == SelectSeq(lines, WellFormed)
    IN [i \in 1 .. Len(sel) |-> JSONparse(trim(sel[i]))]

\* the bytes of its body that request t has been given
Consumed(t) == SubSeq(body[t], 1, Len(body[t]) - Len(rest[t]))

\* what processStream appends when the whole body arrives as one chunk
OneChunk(bytes) ==
    LET lines == split(decode(bytes, <<>>).text)
    IN IF bytes = <<>> THEN Flush(<<>>) ELSE ParseLines(popped(lines)) \o Flush(pop(lines))

Drained(t) == pc[t] = "done" /\ cause[t] = "drained"

\* C1 (DecoderSpec): however the body was cut into chunks, a drained stream
\* has appended exactly the records that the whole body fed as one chunk yields.
C1_ChunkSplitInvariance ==
    \A t \in Tasks : Drained(t) => results = OneChunk(body[t])

\* a drained body of two or more records, one chunk of which ended inside a
\* multi-byte character
C1_Witness ==
    \E t \in Tasks : Drained(t) /\ splitInChar[t] /\ Len(results) >= 2

C3_TrailingLineFlush ==
    \A t \in Tasks :
        LET text == TextOf(body[t]) IN
        Drained(t) =>
            results = RecordsOf(TerminatedLines(text)) \o RecordsOf(<<LastLine(text)>>)

\* a drained body whose last record has no newline after it
C3_Witness ==
    \E t \in Tasks :
        /\ Drained(t)
        /\ body[t] # <<>>
        /\ body[t][Len(body[t])] # NL
        /\ WellFormed(LastLine(TextOf(body[t])))
        /\ Len(results) >= 2

\* ---------------------------------------------------------------- C4 .. C10
InFlight(t) == pc[t] \in {"fetching", "text", "reading"}

NodesOf(recs) == {recs[i].node : i \in 1 .. Len(recs)}
FirstIndex(recs, node) ==
    CHOOSE i \in 1 .. Len(recs) :
        recs[i].node = node /\ \A j \in 1 .. i - 1 : recs[j].node # node

\* C4 (Spec): results holds every record decoded since the last reset, in
\* arrival order, records of a repeated node included; completedNodes holds
\* each node of results exactly once, in the order of first arrival.
C4_DedupRetention ==
    /\ results = decoded
    /\ {completedNodes[i] : i \in 1 .. Len(completedNodes)} = NodesOf(results)
    /\ \A i, j \in 1 .. Len(completedNodes) :
          i < j => FirstIndex(results, completedNodes[i]) < FirstIndex(results, completedNodes[j])

\* three records, the first and the third of the same node
C4_Witness ==
    /\ Len(results) = 3
    /\ results[1].node = results[3].node
    /\ Len(completedNodes) = 2

\* C5 (FairSpec): a request's finally block has run exactly once when it has
\* ended and not before; the step that ends a request leaves isProcessing
\* false; when no request is in flight isProcessing is false; and every
\* dispatched request ends, whichever way, after which isProcessing is false.
C5_Exits ==
    /\ \A t \in Tasks : markInactive[t] = (IF pc[t] = "done" THEN 1 ELSE 0)
    /\ (\A t \in Tasks : ~InFlight(t)) => ~isProcessing

C5_TerminalState ==
    /\ []C5_Exits
    /\ [][\A t \in Tasks : (InFlight(t) /\ pc'[t] = "done") => ~isProcessing']_vars
    /\ \A t \in Tasks : InFlight(t) ~> (pc[t] = "done" /\ ~isProcessing)

\* a request ended by a read error after it had appended a record
C5_Witness ==
    \E t \in Tasks :
        /\ pc[t] = "done"
        /\ cause[t] = "read"
        /\ appended[t] >= 1
        /\ markInactive[t] = 1
        /\ ~isProcessing

\* C6 (Spec), the claim as stated: while a request is in flight,
\* isProcessing is true.
C6_ActiveWhileInFlight ==
    \A t \in Tasks : InFlight(t) => isProcessing

\* C7 (Spec): the step that dispatches a request leaves results and
\* completedNodes empty and isProcessing true.
C7_DispatchReset ==
    [][\A t \in Tasks :
          (pc[t] = "idle" /\ pc'[t] = "fetching")
              => (results' = <<>> /\ completedNodes' = <<>> /\ isProcessing' = TRUE)]_vars

\* a request just dispatched after an earlier request had appended records
C7_Witness ==
    \E t, u \in Tasks :
        /\ pc[t] = "fetching"
        /\ pc[u] = "done"
        /\ appended[u] >= 1
        /\ results = <<>>
        /\ completedNodes = <<>>
        /\ isProcessing

Rejected(t) == pc[t] = "done" /\ response[t] = NoResponse
Non2xx(t) == response[t].status # 0 /\ response[t].status \notin 200 .. 299
Carries(toast, piece) == \E i \in 1 .. Len(toast.message) : toast.message[i] = piece

\* a request whose fetch rejected or answered non-2xx never reads the body
FailsBeforeStream(t) ==
    /\ (Rejected(t) \/ Non2xx(t)) => (appended[t] = 0 /\ body[t] = <<>> /\ pc[t] # "reading")
    /\ (pc[t] = "done" /\ (Rejected(t) \/ Non2xx(t)))
          => (outcome[t] = "failed" /\ Len(toasts[t]) = 1 /\ toasts[t][1].type = "error")

\* C8 (Spec), the claim as stated: a rejected fetch or a non-2xx response
\* ends the request as Failed without a record appended, and for a non-2xx
\* response the notification carries the status and the body text.
C8_TransportFailure ==
    \A t \in Tasks :
        /\ FailsBeforeStream(t)
        /\ (pc[t] = "done" /\ Non2xx(t))
              => /\ Carries(toasts[t][1], StatusString(response[t].status))
                 /\ Carries(toasts[t][1], response[t].text)

\* C8 (Spec), amended: the notification carries the status and the body text
\* when response.text() has resolved; when response.text() rejects, the
\* notification carries that error.
C8_TransportFailureAmended ==
    \A t \in Tasks :
        /\ FailsBeforeStream(t)
        /\ (pc[t] = "done" /\ Non2xx(t))
              => IF cause[t] = "text"
                 THEN toasts[t][1] = ErrorToast(TextError)
                 ELSE /\ Carries(toasts[t][1], StatusString(response[t].status))
                      /\ Carries(toasts[t][1], response[t].text)

\* a request that ended on a 500 response whose body text was read
C8_Witness ==
    \E t \in Tasks :
        /\ pc[t] = "done"
        /\ response[t].status = 500
        /\ cause[t] = "http"
        /\ Carries(toasts[t][1], "500")
        /\ Carries(toasts[t][1], "Internal Server Error")

IsPrefix(s, t) == Len(s) <= Len(t) /\ SubSeq(t, 1, Len(s)) = s

ResetStep == handleReset \/ \E t \in Tasks : handleSubmit(t) \/ handleFileSubmit(t)

\* C9 (Spec): every step other than a reset (handleReset, or the reset at the
\* start of processClaim/processFile) keeps results as a prefix of its new value.
C9_RecordRetention ==
    [][ResetStep \/ IsPrefix(results, results')]_vars

\* records appended by two steps of one stream
C9_Witness ==
    \E t \in Tasks :
        /\ pc[t] = "reading"
        /\ appended[t] = 2
        /\ Len(results) = 2
        /\ results[1] # results[2]

\* C10 (DecoderSpec): between two reads, results holds exactly the records
\* of the lines whose newline lies in the bytes delivered so far, in the
\* order of those newlines.
C10_ProgressiveEmission ==
    \A t \in Tasks :
        pc[t] = "reading" => results = RecordsOf(TerminatedLines(TextOf(Consumed(t))))

\* a record is in results while the stream is open and the next line is
\* partly buffered
C10_Witness ==
    \E t \in Tasks :
        /\ pc[t] = "reading"
        /\ rest[t] # <<>>
        /\ buffer[t] # <<>>
        /\ Len(results) >= 1

\* --------------------------------------------------------------- C11 .. C20
ChatInFlight(c) == chatPc[c] \in {"fetching", "reading"}

\* the position in `messages` of the assistant turn of a chat request sent
\* by the mounted ClaimChatBox: the greeting, then two messages per send
TurnOf(c) == 1 + 2 * Cardinality({u \in Chats : attached[u] /\ u <= c})

ChatConsumed(c) == SubSeq(chatBody[c], 1, Len(chatBody[c]) - Len(chatRest[c]))

\* C11 (ChatSpec): while the chat box that sent a request is mounted, the
\* content of the request's assistant turn between two reads is the text of
\* all the bytes delivered so far, and the step that ends a drained stream
\* leaves the text of the whole body.
C11_ChatAccumulation ==
    /\ [](\A c \in Chats :
            (attached[c] /\ chatPc[c] = "reading")
                => messages[TurnOf(c)].content = TextOf(ChatConsumed(c)))
    /\ [][\A c \in Chats :
            (attached[c] /\ chatPc[c] = "reading" /\ chatPc'[c] = "done"
                /\ chatCause'[c] = "drained")
                => messages'[TurnOf(c)].content = TextOf(chatBody[c])]_vars

\* a stream that has delivered "a" and the first byte of U+00E9
C11_Witness ==
    \E c \in Chats :
        /\ attached[c]
        /\ chatPc[c] = "reading"
        /\ chatPending[c] # <<>>
        /\ chatRest[c] # <<>>
        /\ messages[TurnOf(c)].content = <<"a">>

ChatFailed(c) == chatCause[c] \in {"http", "fetch", "read"}

\* C12 (ChatSpec): the step that ends a chat request by a non-2xx response,
\* a rejected fetch or a read error leaves the error message as the content
\* of the request's assistant turn, removes no message and leaves isLoading
\* false (for a request whose chat box is mounted).
C12_ChatFailureOverwrite ==
    [][\A c \in Chats :
          (attached[c] /\ ChatInFlight(c) /\ chatPc'[c] = "done" /\ ChatFailed(c)')
              => /\ Len(messages') = Len(messages)
                 /\ messages'[TurnOf(c)].id = assistantMessageId[c]
                 /\ messages'[TurnOf(c)].role = "assistant"
                 /\ messages'[TurnOf(c)].content = ErrorContent
                 /\ ~isLoading']_vars

\* a read error after "a" had been published
C12_Witness ==
    \E c \in Chats :
        /\ attached[c]
        /\ chatPc[c] = "done"
        /\ chatCause[c] = "read"
        /\ accumulatedContent[c] = <<"a">>
        /\ messages[TurnOf(c)].content = ErrorContent
        /\ ~isLoading

\* the messages of the mounted chat box that carry the id of a request's
\* assistant turn
TurnsOf(c) == {i \in 1 .. Len(messages) : attached[c] /\ messages[i].id = assistantMessageId[c]}

\* C13 (ChatSpec), the claim as stated: at most one chat request is in
\* flight, and each chat request in flight has exactly one assistant turn.
C13_SingleInFlightChat ==
    /\ Cardinality({c \in Chats : ChatInFlight(c)}) <= 1
    /\ \A c \in Chats : ChatInFlight(c) => Cardinality(TurnsOf(c)) = 1

\* C13: two chat requests in flight at once
C13_TwoInFlight == Cardinality({c \in Chats : ChatInFlight(c)}) = 2

\* C14 (ChatSpec), the claim as stated: once a chat request has ended, no
\* step changes the content of its assistant turn (as long as the
\* conversation that holds the turn exists).
C14_ChatTurnSealed ==
    [][\A c \in Chats :
          (attached[c] /\ chatPc[c] = "done" /\ attached'[c])
              => messages'[TurnOf(c)].content = messages[TurnOf(c)].content]_vars

\* C14: the turn of a request that ended with its whole answer holds only
\* the first character of the next answer
C14_SealedTurnRewritten ==
    \E c, u \in Chats :
        /\ attached[c] /\ attached[u] /\ c < u
        /\ chatPc[c] = "done" /\ chatCause[c] = "drained"
        /\ chatPc[u] = "reading"
        /\ messages[TurnOf(c)].content = <<"a">>

\* C15 (ChatSpec), the claim as stated: a step of the claim side leaves
\* messages and isLoading as they are, and a step of the chat side leaves
\* results, completedNodes and isProcessing as they are.
C15_PipelinesIndependent ==
    [][/\ PageStep => UNCHANGED <<messages, isLoading>>
       /\ ChatStep => UNCHANGED <<results, completedNodes, isProcessing>>]_vars

\* C15: a chat request is in flight and the chat box shows the greeting
\* alone and is not loading
C15_InFlightFlagLost ==
    \E c \in Chats :
        /\ ChatInFlight(c)
        /\ ~isLoading
        /\ messages = Greeting

IdsOf(list) == {list[i].id : i \in 1 .. Len(list)}
StatusOf(list, id) == list[CHOOSE i \in 1 .. Len(list) : list[i].id = id].status

\* C16 (Spec): an entry enters the history with status processing; a step
\* either keeps the status of an entry or takes it from processing to
\* completed or failed.
C16_StatusLifecycle ==
    [][\A id \in IdsOf(claims') :
          IF id \in IdsOf(claims)
          THEN \/ StatusOf(claims', id) = StatusOf(claims, id)
               \/ /\ StatusOf(claims, id) = "processing"
                  /\ StatusOf(claims', id) \in {"completed", "failed"}
          ELSE StatusOf(claims', id) = "processing"]_vars

\* the entry of an ended request next to the entry of a request in flight
C16_Witness ==
    \E t, u \in Tasks :
        /\ pc[t] = "done" /\ InFlight(u)
        /\ t \in IdsOf(claims) /\ u \in IdsOf(claims)
        /\ StatusOf(claims, t) = "completed"
        /\ StatusOf(claims, u) = "processing"

\* C17 (Spec): a request that has not ended has shown no notification; a
\* request that has ended has shown exactly one, a success notification when
\* the body was drained and an error notification otherwise; and the promise
\* of processClaim/processFile resolved (handleSubmit took its try branch).
C17_FailureContainment ==
    \A t \in Tasks :
        /\ pc[t] # "done" => toasts[t] = <<>>
        /\ pc[t] = "done" =>
              /\ Len(toasts[t]) = 1
              /\ toasts[t][1].type = (IF cause[t] = "drained" THEN "success" ELSE "error")
              /\ cause[t] \in {"drained", "fetch", "http", "text", "noreader", "read"}
              /\ t \in IdsOf(claims) => StatusOf(claims, t) = "completed"

\* a request ended by a read error after a record: one error notification
C17_Witness ==
    \E t \in Tasks :
        /\ pc[t] = "done"
        /\ cause[t] = "read"
        /\ appended[t] >= 1
        /\ Len(toasts[t]) = 1
        /\ toasts[t][1].type = "error"

\* C18 (ChatSpec), the claim as stated: a 2xx response without a body
\* reader ends a claim or file request with an error notification and a
\* chat request with the error message in its assistant turn.
C18_MissingReaderIsFatal ==
    /\ \A t \in Tasks :
          (pc[t] = "done" /\ cause[t] = "noreader")
              => (outcome[t] = "failed" /\ toasts[t][Len(toasts[t])].type = "error")
    /\ \A c \in Chats :
          (attached[c] /\ chatPc[c] = "done" /\ chatCause[c] = "noreader")
              => messages[TurnOf(c)].content = ErrorContent

\* C18: a chat request that got no reader has ended with an empty turn
C18_ChatEndsSilently ==
    \E c \in Chats :
        /\ attached[c]
        /\ chatPc[c] = "done"
        /\ chatCause[c] = "noreader"
        /\ messages[TurnOf(c)].content = <<>>
        /\ ~isLoading

\* C19 (Spec), the claim as stated: at most one claim or file request is
\* in flight.
C19_SingleWriter == Cardinality({t \in Tasks : InFlight(t)}) <= 1

\* C19: two streams are open and results holds a record
C19_TwoStreams ==
    /\ \A t \in Tasks : pc[t] = "reading"
    /\ results # <<>>

\* C20 (ChatFairSpec): closing the panel changes nothing but isChatOpen;
\* with the panel closed a chunk still publishes the accumulated text and the
\* end of the request still writes the final content or the error message
\* and sets isLoading false; and a request in flight with the panel closed
\* comes to its end.
C20_NoCancelOnClose ==
    /\ [][onClose => UNCHANGED <<messages, isLoading, chatPc, chatRest, accumulatedContent>>]_vars
    /\ [][\A c \in Chats :
            (attached[c] /\ ChatInFlight(c) /\ ~isChatOpen')
                => /\ (chatPc'[c] = "reading" /\ chatRest'[c] # chatRest[c])
                      => /\ messages'[TurnOf(c)].content = accumulatedContent'[c]
                         /\ IsPrefix(messages[TurnOf(c)].content, messages'[TurnOf(c)].content)
                   /\ chatPc'[c] = "done"
                      => /\ ~isLoading'
                         /\ chatCause'[c] # "none"
                         /\ messages'[TurnOf(c)].content =
                               (IF ChatFailed(c)' THEN ErrorContent ELSE accumulatedContent[c])]_vars
    /\ \A c \in Chats :
          (attached[c] /\ ChatInFlight(c) /\ ~isChatOpen) ~> (chatPc[c] = "done" \/ ~attached[c])

\* the panel was closed before the first chunk; the whole answer has
\* arrived since and isLoading is false
C20_Witness ==
    \E c \in Chats :
        /\ ~isChatOpen
        /\ closedWith = c
        /\ attached[c]
        /\ chatPc[c] = "done"
        /\ chatCause[c] = "drained"
        /\ messages[TurnOf(c)].content = TextOf(chatBody[c])
        /\ chatBody[c] # <<>>
        /\ ~isLoading

\* --------------------------------------------------------------- C21 .. C30
\* the request dispatched last (0: none yet)
Latest ==
    CHOOSE t \in Tasks \cup {0} :
        /\ t \in Tasks => pc[t] # "idle"
        /\ \A u \in Tasks : pc[u] # "idle" => u <= t

RECURSIVE FirstNodes(_, _)
FirstNodes(recs, seen) ==
    IF recs = <<>> THEN <<>>
    ELSE IF Head(recs).node \in seen THEN FirstNodes(Tail(recs), seen)
    ELSE <<Head(recs).node>> \o FirstNodes(Tail(recs), seen \cup {Head(recs).node})

\* what the streaming contract shows for request t, whatever its kind
ContractRecords(t) ==
    LET all == RecordsOf(AllLines(TextOf(body[t])))
    IN CASE pc[t] = "reading" -> RecordsOf(TerminatedLines(TextOf(Consumed(t))))
         [] pc[t] = "done" /\ cause[t] = "drained" -> all
         [] pc[t] = "done" /\ cause[t] = "read" -> SubSeq(all, 1, appended[t])
         [] OTHER -> <<>>

ContractError(t) ==
    CASE cause[t] = "fetch" -> FetchError
      [] cause[t] = "http" -> HttpError(response[t].status, response[t].text)
      [] cause[t] = "text" -> TextError
      [] cause[t] = "noreader" -> NoReaderError
      [] OTHER -> ReadError

C24_NoStaleRecords ==
    [][\A t \in Tasks :
          appended'[t] > appended[t] => (hasStarted /\ t = Latest)]_vars

\* a second request still waiting for its response while results holds a
\* record of the first request, appended after the reset and the new dispatch
C24_StaleRecordShown ==
    \E t, u \in Tasks :
        /\ t < u /\ u = Latest
        /\ hasStarted
        /\ pc[u] = "fetching"
        /\ appended[t] >= 1
        /\ Len(results) = appended[t]

\* C25 (Spec): the history entry of an ended request carries the outcome of
\* the request: completed after Completed, failed after Failed.
C25_StatusFollowsOutcome ==
    \A t \in Tasks :
        (pc[t] = "done" /\ t \in IdsOf(claims)) => StatusOf(claims, t) = outcome[t]

\* a request that ended in Failed whose entry says completed
C25_FailedStoredCompleted ==
    \E t \in Tasks :
        /\ pc[t] = "done"
        /\ outcome[t] = "failed"
        /\ toasts[t] = <<ErrorToast(FetchError)>>
        /\ t \in IdsOf(claims)
        /\ StatusOf(claims, t) = "completed"

\* C27 (ChatSpec): a send appends the user turn and an empty assistant turn
\* and changes no message before them; a chunk, an error or the end of a
\* request whose instance is mounted changes at most the content of its own
\* assistant turn: the length of the conversation and every other message
\* stay as they are.
C27_ChatFrame ==
    [][\A c \in Chats :
          /\ (chatPc[c] = "idle" /\ chatPc'[c] = "fetching") =>
                /\ Len(messages') = Len(messages) + 2
                /\ SubSeq(messages', 1, Len(messages)) = messages
                /\ messages'[Len(messages) + 1].role = "user"
                /\ messages'[Len(messages) + 2].role = "assistant"
                /\ messages'[Len(messages) + 2].content = <<>>
          /\ (attached[c] /\ attached'[c] /\ ChatInFlight(c)
                 /\ (chatPc'[c] # chatPc[c] \/ chatRest'[c] # chatRest[c])) =>
                /\ Len(messages') = Len(messages)
                /\ messages'[TurnOf(c)].id = messages[TurnOf(c)].id
                /\ messages'[TurnOf(c)].role = messages[TurnOf(c)].role
                /\ \A i \in 1 .. Len(messages) :
                      i # TurnOf(c) => messages'[i] = messages[i]]_vars

\* the complete answer of the first request replaced by the error message of
\* the second
C27_OtherTurnOverwritten ==
    \E c, u \in Chats :
        /\ attached[c] /\ attached[u] /\ c < u
        /\ chatPc[c] = "done" /\ chatCause[c] = "drained"
        /\ Len(chatBody[c]) >= 1
        /\ chatPc[u] = "done" /\ chatCause[u] = "fetch"
        /\ messages[TurnOf(c)].content = ErrorContent
        /\ messages[TurnOf(u)].content = ErrorContent

\* the list stored under the storage key, an absent key being the empty list
StoredList == IF storage.present THEN storage.value ELSE <<>>

\* C22 (HistorySpec): the stored list equals claims, and claims is ordered
\* from the entry created last to the entry created first.
C22_StorageMirrorsClaims ==
    /\ StoredList = claims
    /\ \A i, j \in 1 .. Len(claims) : i < j => claims[i].id > claims[j].id

\* the older of two entries deleted and the status of the other updated
C22_Witness ==
    /\ Len(claims) = 1
    /\ claims[1].id = 2
    /\ claims[1].status = "completed"
    /\ storage.present
    /\ pc[1] = "done"

\* C28 (HistorySpec): the step that ends a request whose entry is no longer
\* in the list leaves the list without it, and the end of a request changes
\* no entry but its own.
C28_NoResurrection ==
    [][\A t \in Tasks :
          (InFlight(t) /\ pc'[t] = "done") =>
              /\ IdsOf(claims') = IdsOf(claims)
              /\ Len(claims') = Len(claims)
              /\ \A i \in 1 .. Len(claims) : claims[i].id # t => claims'[i] = claims[i]
              /\ t \notin IdsOf(claims) => claims' = claims]_vars

\* a request that ended after its entry had been deleted, next to the
\* untouched entry of a request in flight
C28_Witness ==
    \E t, u \in Tasks :
        /\ pc[t] = "done"
        /\ t \notin IdsOf(claims)
        /\ InFlight(u)
        /\ u \in IdsOf(claims)
        /\ StatusOf(claims, u) = "processing"

\* C29 (HistorySpec): selectedClaimId is null or the id of an entry of claims.
C29_SelectionValid == selectedClaimId = 0 \/ selectedClaimId \in IdsOf(claims)

\* the selected entry deleted, another one still in the list
C29_Witness ==
    /\ selectedClaimId = 0
    /\ hasStarted
    /\ Len(claims) = 1
    /\ \E t \in Tasks : pc[t] # "idle" /\ t \notin IdsOf(claims)

\* C23 (DecoderSpec): the lines processed so far have produced one record
\* per well-formed line and one parse-failure report per malformed line, so
\* a blank line has produced neither, as a terminated line and as the final
\* buffer; a drained stream whose lines are all blank, the empty stream
\* included, ends as completed with results and completedNodes empty and no
\* report.
C23_BlankLines ==
    \A t \in Tasks :
        LET lines == IF Drained(t) THEN AllLines(TextOf(body[t]))
                     ELSE TerminatedLines(TextOf(Consumed(t)))
        IN (pc[t] = "reading" \/ Drained(t)) =>
              /\ Len(results) = Len(SelectSeq(lines, WellFormed))
              /\ parseFailures[t] = Len(SelectSeq(lines, Malformed))
              /\ (Drained(t) /\ \A i \in 1 .. Len(lines) : Blank(lines[i])) =>
                    /\ results = <<>>
                    /\ completedNodes = <<>>
                    /\ parseFailures[t] = 0
                    /\ outcome[t] = "completed"
                    /\ toasts[t] = <<SuccessToast(kind[t])>>
                    /\ ~isProcessing

\* a drained stream with an empty line, a record and a whitespace-only
\* final buffer
C23_Witness ==
    \E t \in Tasks :
        /\ Drained(t)
        /\ body[t] = <<NL>> \o RecA \o <<NL, " ">>
        /\ Len(results) = 1
        /\ parseFailures[t] = 0

\* the form holds something ClaimInput.handleSubmit passes on
ValidInput(k) ==
    \/ k = "claim" /\ inputMode = "text" /\ ~Blank(claimText)
    \/ k = "file" /\ inputMode = "file" /\ selectedFile # NoFile

StatusOfStep(i) == getStepStatus(steps[i], i - 1)

Pending(i) == ~includes(completedNodes, steps[i])

\* C26 (StepperSpec), the claim as stated: a step is shown completed exactly
\* when its id is in completedNodes; no step is active when isProcessing is
\* false; and while isProcessing is true and a step is not completed,
\* exactly one step is active, the earliest step that is not completed.
C26_StepperStatus ==
    LET active == {i \in 1 .. Len(steps) : StatusOfStep(i) = "active"}
        open == {i \in 1 .. Len(steps) : Pending(i)}
    IN /\ \A i \in 1 .. Len(steps) : (StatusOfStep(i) = "completed") <=> ~Pending(i)
       /\ ~isProcessing => active = {}
       /\ (isProcessing /\ open # {}) =>
             active = {CHOOSE i \in open : \A j \in open : i <= j}

\* the record of the second stage has arrived before that of the first: the
\* request is reading, three steps are not completed and none is active
C26_NoActiveStep ==
    /\ isProcessing
    /\ pc[1] = "reading"
    /\ completedNodes = <<steps[2]>>
    /\ \A i \in 1 .. Len(steps) : StatusOfStep(i) # "active"

====
